---- MODULE Spec2Model ----
(***************************************************************************)
(* Model of the translation-status service of src/main.py: the job record  *)
(* (TranslationJob), the status resolver (get_status), the webhook         *)
(* notifier (WebhookService.send_webhook) and the per-job monitor          *)
(* (_monitor_job_status), all running on one asyncio event loop.           *)
(*                                                                         *)
(* One action is one run of a coroutine from a suspension point to the     *)
(* next one: coroutines on an event loop are not preempted between awaits. *)
(* requests.post is a blocking call made inside a coroutine, so while a    *)
(* POST is in flight nothing else on the event loop runs; only time        *)
(* passes, until the response or the request timeout.                      *)
(*                                                                         *)
(* Time is counted in whole seconds.  The clock `now` is tracked up to     *)
(* Horizon, past which no job's derived status can change any more; sleeps *)
(* and the request timeout are countdown timers, so they keep running      *)
(* after the clock has reached Horizon.                                    *)
(***************************************************************************)
EXTENDS Integers, Sequences, FiniteSets, TLC

\* ---------------------------------------------------------------- bounds
JobIds == {"a", "b"}          \* the uuid4 values that can be drawn
MaxDuration == 1              \* durations requested: up to MaxDuration
MaxCreateTime == 0            \* jobs are created while now <= MaxCreateTime
MinDuration == 0 - 1          \* `duration: float` admits negative numbers
Durations == MinDuration..MaxDuration
Urls == {"", "http://hook"}   \* webhook_url: empty, or some endpoint
Horizon == MaxCreateTime + MaxDuration + 1

\* ------------------------------------------------------ program constants
PENDING == "pending"
ERROR == "error"
COMPLETED == "completed"
Status == {PENDING, ERROR, COMPLETED}
Terminal == {COMPLETED, ERROR}

MAX_RETRIES == 3
RETRY_DELAY == 5
POST_TIMEOUT == 5
POLL_INTERVAL == 1

None == "None"                \* None, where the other values are strings
NoTime == 0 - 1               \* None, where the other values are times
True == "True"                \* what send_webhook returns
False == "False"
NoPayload == [job_id |-> None, status |-> None, created_at |-> NoTime,
              event_type |-> None]
Outcomes == {"ok", "bad", "exc"}  \* 2xx response, other response, RequestException

VARIABLES
    now,                \* time.time(), in seconds, tracked up to Horizon
    jobs_store,         \* the dict id -> TranslationJob
    pc,                 \* where each job's monitor task stands
    previous_status,    \* local of _monitor_job_status
    current_status,     \* local of _monitor_job_status
    attempt,            \* loop variable of send_webhook
    payload,            \* local of send_webhook
    post_url,           \* the url given to the latest requests.post
    timer,              \* seconds left of the current sleep or request timeout
    result,             \* what send_webhook returned to the monitor
    calls,              \* history: send_webhook calls made by the monitor
    posts,              \* history: requests.post calls of the latest send_webhook
    waits               \* history: its backoff sleeps, in the order started

vars == <<now, jobs_store, pc, previous_status, current_status, attempt,
          payload, post_url, timer, result, calls, posts, waits>>

\* ------------------------------------------------------------ job record
\* TranslationJob.__init__
NewJob(id, duration, webhook_url, has_error) ==
    [id |-> id,
     start_time |-> now,
     duration |-> duration,
     webhook_url |-> webhook_url,
     has_error |-> has_error,
     webhook_attempts |-> 0,
     last_webhook_attempt |-> NoTime]

\* TranslationJob.get_status, as a function of the record and the time read
ResolveMutant(job, t) ==
    IF t - job.start_time > job.duration THEN COMPLETED
    ELSE IF job.has_error THEN ERROR
    ELSE PENDING

ResolveGeMutant(job, t) ==
    IF job.has_error THEN ERROR
    ELSE IF t - job.start_time >= job.duration THEN COMPLETED
    ELSE PENDING

Resolve(job, t) ==
    IF job.has_error THEN ERROR
    ELSE IF t - job.start_time > job.duration THEN COMPLETED
    ELSE PENDING

get_status(j) == Resolve(jobs_store[j], now)

RECURSIVE Pow2(_)
Pow2(n) == IF n = 0 THEN 1 ELSE 2 * Pow2(n - 1)

\* the argument of asyncio.sleep in send_webhook
BackoffMutant(i) == RETRY_DELAY * (i + 1)

Backoff(i) == RETRY_DELAY * Pow2(i)

\* `for attempt in range(MAX_RETRIES)`: whether the loop runs for index i
InRangeMutant(i) == i <= MAX_RETRIES

InRange(i) == i < MAX_RETRIES

\* `if not job.webhook_url`
NoWebhookMutant(job) == FALSE

NoWebhook(job) == job.webhook_url = ""

\* `except requests.RequestException`: whether a raised outcome is caught
CatchesMutant(outcome) == FALSE

Catches(outcome) == outcome = "exc"

\* `job.webhook_attempts += 1`
CountAttemptMutant(store, j) ==
    [k \in DOMAIN store |-> [store[k] EXCEPT !.webhook_attempts = @ + 1]]

CountAttempt(store, j) == [store EXCEPT ![j].webhook_attempts = @ + 1]

\* requests.post blocks the event loop's only thread
Blocked == \E j \in JobIds : pc[j] = "inflight"

Init ==
    /\ now = 0
    /\ jobs_store = << >>
    /\ pc = [j \in JobIds |-> "idle"]
    /\ previous_status = [j \in JobIds |-> None]
    /\ current_status = [j \in JobIds |-> None]
    /\ attempt = [j \in JobIds |-> 0]
    /\ payload = [j \in JobIds |-> NoPayload]
    /\ post_url = [j \in JobIds |-> None]
    /\ timer = [j \in JobIds |-> 0]
    /\ result = [j \in JobIds |-> None]
    /\ calls = [j \in JobIds |-> 0]
    /\ posts = [j \in JobIds |-> 0]
    /\ waits = [j \in JobIds |-> << >>]

\* ------------------------------------------------------------- API layer
\* POST /translations/status/
create_translation(j, duration, webhook_url, has_error) ==
    /\ ~Blocked
    /\ now <= MaxCreateTime
    /\ j \notin DOMAIN jobs_store
    /\ jobs_store' = jobs_store @@ (j :> NewJob(j, duration, webhook_url, has_error))
    /\ pc' = [pc EXCEPT ![j] = "start"]
    /\ UNCHANGED <<now, previous_status, current_status, attempt, payload,
                   post_url, timer, result, calls, posts, waits>>

\* A value of the path parameter {id}: Python compares a dict key with it by
\* type and value, and the keys of jobs_store are UUID objects.
Str(text) == [type |-> "str", text |-> text]
Uuid(text) == [type |-> "UUID", text |-> text]
KeyEq(key, value) == value.type = "UUID" /\ value.text = key

\* `id in jobs_store`
Contains(store, value) == \E k \in DOMAIN store : KeyEq(k, value)

\* `jobs_store[id]`, for a value the store contains
Lookup(store, value) == store[CHOOSE k \in DOMAIN store : KeyEq(k, value)]

\* TranslationJob.to_dict; created_at, the ISO text of start_time, is kept as
\* the time it denotes
to_dict(job) ==
    [kind |-> "job",
     id |-> job.id,
     created_at |-> job.start_time,
     duration |-> job.duration,
     status |-> Resolve(job, now)]

\* GET /translations/status/{id} of main.py, for the text in the path: the
\* parameter is declared `id: str`, and TranslationJob has no created_at
main_get_status(text) ==
    IF ~Contains(jobs_store, Str(text))
    THEN [kind |-> "not_found", id |-> text]
    ELSE [kind |-> "AttributeError", id |-> text]

\* GET /translations/status/{id} of server.py: the parameter is declared
\* `id: UUID4`, and a miss raises HTTPException(404)
server_get_status(text) ==
    IF ~Contains(jobs_store, Uuid(text))
    THEN [kind |-> "not_found", id |-> text]
    ELSE to_dict(Lookup(jobs_store, Uuid(text)))

\* --------------------------------------------------------------- monitor
\* _monitor_job_status from the line after `await send_webhook` on, with r the
\* value send_webhook returned and store the jobs as send_webhook left them
AfterSendMutant(j, cur, r, store) ==
    /\ result' = [result EXCEPT ![j] = r]
    /\ jobs_store' = store
    /\ pc' = [pc EXCEPT ![j] = "sleep"]
    /\ previous_status' = [previous_status EXCEPT ![j] = cur]
    /\ timer' = [timer EXCEPT ![j] = POLL_INTERVAL]

AfterSend(j, cur, r, store) ==
    /\ result' = [result EXCEPT ![j] = r]
    /\ jobs_store' = store
    /\ IF cur \in {COMPLETED, ERROR}
       THEN /\ pc' = [pc EXCEPT ![j] = "done"]
            /\ timer' = [timer EXCEPT ![j] = 0]
            /\ UNCHANGED previous_status
       ELSE /\ pc' = [pc EXCEPT ![j] = "sleep"]
            /\ previous_status' = [previous_status EXCEPT ![j] = cur]
            /\ timer' = [timer EXCEPT ![j] = POLL_INTERVAL]

\* the payload send_webhook builds when it starts
PayloadOfMutant(j) ==
    [job_id |-> jobs_store[j].id,
     status |-> previous_status[j],
     created_at |-> jobs_store[j].start_time,
     event_type |-> "translation.status_update"]

PayloadOf(j) ==
    [job_id |-> jobs_store[j].id,
     status |-> get_status(j),
     created_at |-> jobs_store[j].start_time,
     event_type |-> "translation.status_update"]

\* send_webhook up to its first requests.post, called for a status change
SendWebhook(j, cur) ==
    /\ calls' = [calls EXCEPT ![j] = @ + 1]
    /\ waits' = [waits EXCEPT ![j] = << >>]
    /\ IF NoWebhook(jobs_store[j])
       THEN /\ AfterSend(j, cur, True, jobs_store)
            /\ posts' = [posts EXCEPT ![j] = 0]
            /\ UNCHANGED <<attempt, payload, post_url>>
       ELSE /\ payload' = [payload EXCEPT ![j] = PayloadOf(j)]
            /\ attempt' = [attempt EXCEPT ![j] = 0]
            /\ post_url' = [post_url EXCEPT ![j] = jobs_store[j].webhook_url]
            /\ posts' = [posts EXCEPT ![j] = 1]
            /\ pc' = [pc EXCEPT ![j] = "inflight"]
            /\ timer' = [timer EXCEPT ![j] = POST_TIMEOUT]
            /\ UNCHANGED <<jobs_store, previous_status, result>>

\* one pass through the body of `while True`, with prev the previous status
LoopBody(j, prev) ==
    LET cur == get_status(j) IN
    /\ current_status' = [current_status EXCEPT ![j] = cur]
    /\ IF cur # prev
       THEN SendWebhook(j, cur)
       ELSE /\ previous_status' = [previous_status EXCEPT ![j] = cur]
            /\ pc' = [pc EXCEPT ![j] = "sleep"]
            /\ timer' = [timer EXCEPT ![j] = POLL_INTERVAL]
            /\ UNCHANGED <<jobs_store, attempt, payload, post_url, result,
                           calls, posts, waits>>

\* the background task starts: previous_status, then the first pass
MonitorStartMutant(j) ==
    /\ ~Blocked
    /\ pc[j] = "start"
    /\ LoopBody(j, PENDING)
    /\ UNCHANGED now

MonitorStart(j) ==
    /\ ~Blocked
    /\ pc[j] = "start"
    /\ LoopBody(j, get_status(j))
    /\ UNCHANGED now

\* asyncio.sleep(1) is over: the next pass
MonitorWakeMutant(j) ==
    /\ ~Blocked
    /\ pc[j] \in {"sleep", "backoff"}
    /\ timer[j] = 0
    /\ LoopBody(j, previous_status[j])
    /\ UNCHANGED now

MonitorWake(j) ==
    /\ ~Blocked
    /\ pc[j] = "sleep"
    /\ timer[j] = 0
    /\ LoopBody(j, previous_status[j])
    /\ UNCHANGED now

\* -------------------------------------------------------------- notifier
\* requests.post returns or raises
PostResponseMutant(j, outcome) ==
    /\ pc[j] = "inflight"
    /\ jobs_store' = [jobs_store EXCEPT
          ![j].last_webhook_attempt = IF outcome = "ok" THEN now ELSE @,
          ![j].webhook_attempts = @ + 1]
    /\ pc' = [pc EXCEPT ![j] = "backoff"]
    /\ timer' = [timer EXCEPT ![j] = Backoff(attempt[j])]
    /\ waits' = [waits EXCEPT ![j] = Append(@, Backoff(attempt[j]))]
    /\ UNCHANGED <<now, previous_status, current_status, attempt, payload,
                   post_url, result, calls, posts>>

PostResponse(j, outcome) ==
    /\ pc[j] = "inflight"
    /\ IF outcome = "ok"
       THEN /\ AfterSend(j, current_status[j], True,
                   [jobs_store EXCEPT ![j].last_webhook_attempt = now])
            /\ UNCHANGED waits
       ELSE IF outcome = "bad" \/ Catches(outcome)
       THEN /\ jobs_store' = CountAttempt(jobs_store, j)
            /\ pc' = [pc EXCEPT ![j] = "backoff"]
            /\ timer' = [timer EXCEPT ![j] = Backoff(attempt[j])]
            /\ waits' = [waits EXCEPT ![j] = Append(@, Backoff(attempt[j]))]
            /\ UNCHANGED <<previous_status, result>>
       ELSE \* an exception nothing catches ends the monitor's task
            /\ pc' = [pc EXCEPT ![j] = "crashed"]
            /\ timer' = [timer EXCEPT ![j] = 0]
            /\ UNCHANGED <<jobs_store, previous_status, result, waits>>
    /\ UNCHANGED <<now, current_status, attempt, payload, post_url, calls,
                   posts>>

\* the backoff sleep is over: the next attempt, or return False
BackoffWake(j) ==
    /\ ~Blocked
    /\ pc[j] = "backoff"
    /\ timer[j] = 0
    /\ IF InRange(attempt[j] + 1)
       THEN /\ attempt' = [attempt EXCEPT ![j] = @ + 1]
            /\ post_url' = [post_url EXCEPT ![j] = jobs_store[j].webhook_url]
            /\ posts' = [posts EXCEPT ![j] = @ + 1]
            /\ pc' = [pc EXCEPT ![j] = "inflight"]
            /\ timer' = [timer EXCEPT ![j] = POST_TIMEOUT]
            /\ UNCHANGED <<jobs_store, previous_status, result>>
       ELSE /\ AfterSend(j, current_status[j], False, jobs_store)
            /\ UNCHANGED <<attempt, post_url, posts>>
    /\ UNCHANGED <<now, current_status, payload, calls, waits>>

\* ------------------------------------------------------------------ time
\* one second passes; a request in flight does not outlive its timeout
Tick ==
    /\ \A j \in JobIds : pc[j] = "inflight" => timer[j] > 0
    /\ ~(now = Horizon /\ \A j \in JobIds : timer[j] = 0)
    /\ now' = IF now < Horizon THEN now + 1 ELSE now
    /\ timer' = [j \in JobIds |-> IF timer[j] > 0 THEN timer[j] - 1 ELSE 0]
    /\ UNCHANGED <<jobs_store, pc, previous_status, current_status, attempt,
                   payload, post_url, result, calls, posts, waits>>

Next ==
    \/ \E j \in JobIds, d \in Durations, u \in Urls, e \in BOOLEAN :
          create_translation(j, d, u, e)
    \/ \E j \in JobIds : MonitorStart(j)
    \/ \E j \in JobIds : MonitorWake(j)
    \/ \E j \in JobIds, o \in Outcomes : PostResponse(j, o)
    \/ \E j \in JobIds : BackoffWake(j)
    \/ Tick

Spec == Init /\ [][Next]_vars

\* The event loop runs every ready task, time passes, and requests.post
\* returns or raises within its timeout.
FairSpec ==
    /\ Spec
    /\ WF_vars(Tick)
    /\ \A j \in JobIds :
          /\ WF_vars(MonitorStart(j))
          /\ WF_vars(MonitorWake(j))
          /\ WF_vars(BackoffWake(j))
          /\ WF_vars(\E o \in Outcomes : PostResponse(j, o))

Created == DOMAIN jobs_store

TypeOK ==
    /\ now \in 0..Horizon
    /\ Created \subseteq JobIds
    /\ \A j \in Created :
          /\ jobs_store[j].id = j
          /\ jobs_store[j].start_time \in 0..MaxCreateTime
          /\ jobs_store[j].duration \in Durations
          /\ jobs_store[j].webhook_url \in Urls
          /\ jobs_store[j].has_error \in BOOLEAN
          /\ jobs_store[j].webhook_attempts \in 0..MAX_RETRIES
          /\ jobs_store[j].last_webhook_attempt \in {NoTime} \cup (0..Horizon)
    /\ \A j \in JobIds :
          /\ pc[j] \in {"idle", "start", "sleep", "inflight", "backoff", "done"}
          /\ (pc[j] = "idle") <=> (j \notin Created)
          /\ previous_status[j] \in Status \cup {None}
          /\ current_status[j] \in Status \cup {None}
          /\ timer[j] \in 0..Backoff(MAX_RETRIES - 1)
          /\ result[j] \in {None, True, False}
          /\ post_url[j] \in Urls \cup {None}

\* ================================================================ claims
Job(j) == jobs_store[j]

\* the times at which a status can be observed, from a job's creation on
ObservationTimes(j) == Job(j).start_time .. (Horizon + 1)

\* C1: a pass of the monitor's loop that observed a terminal status leaves the
\* loop: the monitor is then inside the notifier or has exited, and is never
\* left waiting for another poll.
C1_ExitsOnTerminal ==
    \A j \in JobIds :
        current_status[j] \in Terminal => pc[j] \in {"inflight", "backoff", "done"}

\* C2: a job created with has_error set has status Error whenever observed,
\* its notifier is never called twice, and once its monitor has started the
\* notifier is eventually called for it.
C2_FaultedNotifiedOnce ==
    /\ [](\A j \in Created :
            Job(j).has_error => get_status(j) = ERROR /\ calls[j] <= 1)
    /\ \A j \in JobIds :
          (j \in Created /\ Job(j).has_error /\ pc[j] = "sleep") ~> (calls[j] = 1)

\* C3: a monitor whose first observation of a job without error was Pending
\* eventually observes Completed, has called the notifier once for it and has
\* exited; for an empty webhook_url that call made no request and returned True.
C3_PendingCompletesAndExits ==
    /\ \A j \in JobIds :
          (pc[j] = "sleep" /\ previous_status[j] = PENDING)
              ~> (/\ pc[j] = "done"
                  /\ current_status[j] = COMPLETED
                  /\ calls[j] = 1)
    /\ [](\A j \in Created :
            (calls[j] = 1 /\ Job(j).webhook_url = "")
                => (pc[j] = "done" /\ result[j] = True /\ posts[j] = 0))

C3_Witness ==
    \E j \in Created :
        /\ ~Job(j).has_error
        /\ Job(j).webhook_url = ""
        /\ previous_status[j] = PENDING
        /\ current_status[j] = COMPLETED
        /\ calls[j] = 1
        /\ result[j] = True
        /\ pc[j] = "done"

\* C4: the notifier is called at most once per job and only for an observed
\* change of status, and once the monitor has observed a terminal status it
\* makes no further observation and no further notifier call for the job.
C4_NothingAfterTerminal ==
    [][\A j \in JobIds :
          /\ calls'[j] <= 1
          /\ calls'[j] # calls[j] => current_status'[j] # previous_status[j]
          /\ current_status[j] \in Terminal
                => (~MonitorWake(j) /\ calls'[j] = calls[j])]_vars

\* C5: for a job with has_error set the resolver returns Error at every time
\* from its creation on, and every status its monitor observed is Error.
C5_FaultedAlwaysError ==
    \A j \in Created :
        Job(j).has_error =>
            /\ \A t \in ObservationTimes(j) : Resolve(Job(j), t) = ERROR
            /\ previous_status[j] \in {None, ERROR}
            /\ current_status[j] \in {None, ERROR}

C5_Witness ==
    \E j \in Created :
        /\ Job(j).has_error
        /\ now - Job(j).start_time > Job(j).duration
        /\ current_status[j] = ERROR

\* C6: for a job without error the resolver returns Pending exactly while
\* t - start_time <= duration and Completed exactly when t - start_time >
\* duration; over increasing times Completed is never followed by Pending,
\* also in what the monitor observed and what is resolved now.
C6_PendingThenCompleted ==
    \A j \in Created :
        ~Job(j).has_error =>
            /\ \A t \in ObservationTimes(j) :
                  /\ (Resolve(Job(j), t) = PENDING)
                        <=> (t - Job(j).start_time <= Job(j).duration)
                  /\ (Resolve(Job(j), t) = COMPLETED)
                        <=> (t - Job(j).start_time > Job(j).duration)
            /\ \A t1, t2 \in ObservationTimes(j) :
                  (t1 <= t2 /\ Resolve(Job(j), t1) = COMPLETED)
                      => Resolve(Job(j), t2) = COMPLETED
            /\ previous_status[j] = COMPLETED => current_status[j] = COMPLETED
            /\ current_status[j] = COMPLETED => get_status(j) = COMPLETED

C6_Witness ==
    \E j \in Created :
        /\ ~Job(j).has_error
        /\ Job(j).duration > 0
        /\ now - Job(j).start_time = Job(j).duration + 1
        /\ previous_status[j] = PENDING
        /\ current_status[j] = COMPLETED

\* C7: one notifier call makes at most MAX_RETRIES requests, and the wait that
\* follows its failed attempt number i (from 0) is RETRY_DELAY * 2^i, that is
\* 5, 10, 20, each longer than the one before.
C7_BoundedRetriesBackoff ==
    \A j \in JobIds :
        /\ posts[j] <= 3
        /\ Len(waits[j]) <= posts[j]
        /\ \A i \in 1..Len(waits[j]) :
              /\ waits[j][i] = 5 * 2^(i - 1)
              /\ waits[j][i] = <<5, 10, 20>>[i]
              /\ i > 1 => waits[j][i] > waits[j][i - 1]

C7_Witness ==
    \E j \in JobIds : posts[j] = 3 /\ Len(waits[j]) = 3

\* C8 as stated: a notifier call that returned False made exactly 3 requests
\* and waited only between them, 5 then 10 seconds.
C8_NoWaitAfterLast ==
    \A j \in JobIds :
        result[j] = False => (posts[j] = 3 /\ waits[j] = <<5, 10>>)

\* C8 as amended: a notifier call all of whose attempts fail makes exactly 3
\* requests, waits after every one of them, the last included (5, 10 and 20
\* seconds), and then returns False; it returns False in no other case.
C8_WaitAfterEveryFailure ==
    \A j \in JobIds :
        /\ pc[j] = "backoff" => Len(waits[j]) = posts[j]
        /\ result[j] = False => (posts[j] = 3 /\ waits[j] = <<5, 10, 20>>)
        /\ (Len(waits[j]) = 3 /\ pc[j] # "backoff") => result[j] = False
        /\ (Len(waits[j]) < 3 /\ Len(waits[j]) = posts[j] /\ calls[j] = 1
              /\ ~NoWebhook(Job(j))) => pc[j] = "backoff"

C8_Witness ==
    \E j \in JobIds :
        /\ result[j] = False
        /\ posts[j] = 3
        /\ waits[j] = <<5, 10, 20>>
        /\ pc[j] = "done"

\* C9: whenever no request is in flight, the job's webhook_attempts equals
\* the number of requests made for it, and last_webhook_attempt is set as
\* soon as one request was made.
C9_EveryAttemptRecorded ==
    \A j \in Created :
        pc[j] # "inflight" =>
            /\ Job(j).webhook_attempts = posts[j]
            /\ posts[j] >= 1 => Job(j).last_webhook_attempt # NoTime

\* C10: a notifier call for a job with an empty webhook_url returns True,
\* makes no request, starts no wait and leaves webhook_attempts and
\* last_webhook_attempt as they were at creation.
C10_EmptyUrlNoOp ==
    \A j \in Created :
        Job(j).webhook_url = "" =>
            /\ pc[j] \notin {"inflight", "backoff"}
            /\ posts[j] = 0
            /\ waits[j] = << >>
            /\ Job(j).webhook_attempts = 0
            /\ Job(j).last_webhook_attempt = NoTime
            /\ calls[j] >= 1 => result[j] = True

C10_Witness ==
    \E j \in Created :
        /\ Job(j).webhook_url = ""
        /\ calls[j] = 1
        /\ result[j] = True
        /\ now = Horizon

\* a request of job j got a 2xx response: the code's own record of it
Delivered(j) == j \in Created /\ Job(j).last_webhook_attempt # NoTime

\* C11: once an attempt of a notifier call succeeded, the call has returned
\* True to the monitor, no wait followed the successful attempt (every wait
\* follows an earlier, failed attempt), and no further request or wait is
\* ever started for the job; this for a success on any of attempts 1..3.
C11_SuccessReturnsAtOnce ==
    /\ [](\A j \in JobIds :
            Delivered(j) =>
                /\ result[j] = True
                /\ pc[j] = "done"
                /\ posts[j] \in 1..3
                /\ Len(waits[j]) = posts[j] - 1)
    /\ [][\A j \in JobIds :
            Delivered(j) => (posts'[j] = posts[j] /\ waits'[j] = waits[j])]_vars

C11_Witness ==
    \E j, k \in JobIds :
        /\ Delivered(j) /\ posts[j] = 3 /\ waits[j] = <<5, 10>>
        /\ Delivered(k) /\ posts[k] = 1 /\ waits[k] = << >>

\* C12: a notifier call that returned False was the monitor's only call for
\* the job and the monitor has exited after it; an exception raised by
\* requests.post never ends the monitor's task but is followed by the backoff
\* wait like any failed attempt, and False is returned only after 3 failures.
C12_FailureAbsorbed ==
    \A j \in JobIds :
        /\ pc[j] # "crashed"
        /\ result[j] = False =>
              /\ pc[j] = "done"
              /\ calls[j] = 1
              /\ posts[j] = 3
              /\ Job(j).webhook_attempts = 3
        /\ (calls[j] = 1 /\ posts[j] >= 1 /\ pc[j] = "done")
              => result[j] \in {True, False}

C12_Witness ==
    \E j \in JobIds :
        /\ result[j] = False
        /\ pc[j] = "done"
        /\ calls[j] = 1
        /\ current_status[j] = COMPLETED
        /\ now = Horizon

\* the requests of job j's latest notifier call that have not failed
Unanswered(j) == posts[j] - Len(waits[j])

\* C13: for each job at most one request is outstanding at any time, a request
\* is started only after the wait that followed the one before it, and while
\* a request or a backoff wait of the job is in progress its monitor observes
\* no status and starts no notifier call.
C13_StrictlySequential ==
    /\ [](\A j \in JobIds :
            /\ Unanswered(j) \in {0, 1}
            /\ pc[j] = "inflight" => Unanswered(j) = 1
            /\ pc[j] = "backoff" => Unanswered(j) = 0)
    /\ [][\A j \in JobIds :
            pc[j] \in {"inflight", "backoff"} =>
                /\ current_status'[j] = current_status[j]
                /\ previous_status'[j] = previous_status[j]
                /\ calls'[j] = calls[j]
                /\ posts'[j] \in {posts[j], posts[j] + 1}
                /\ posts'[j] # posts[j] => (pc[j] = "backoff" /\ timer[j] = 0)]_vars

C13_Witness ==
    \E j \in JobIds :
        /\ pc[j] = "inflight"
        /\ posts[j] = 2
        /\ timer[j] = 0
        /\ get_status(j) = COMPLETED

\* C14: while a request of one job is in flight, the monitor of another job
\* whose sleep is over (or which has not started yet) can take its next step,
\* and so can start a request of its own.
C14_OtherMonitorsRun ==
    \A a, b \in JobIds :
        (a # b /\ pc[a] = "inflight") =>
            /\ pc[b] = "start" => ENABLED MonitorStart(b)
            /\ (pc[b] = "sleep" /\ timer[b] = 0) => ENABLED MonitorWake(b)
            /\ (pc[b] = "backoff" /\ timer[b] = 0) => ENABLED BackoffWake(b)

\* the fields of a job record that nothing may change after creation
Identity(job) ==
    <<job.id, job.start_time, job.duration, job.has_error, job.webhook_url>>

\* the fields of a job record the notifier writes
AttemptState(job) == <<job.webhook_attempts, job.last_webhook_attempt>>

\* C15: every request of a job carries that job's id and creation time and is
\* posted to that job's webhook_url; no step changes the id, start_time,
\* duration, has_error or webhook_url of any job, and webhook_attempts and
\* last_webhook_attempt of a job change only when a request of that very job
\* is answered.
C15_DeliveryAttributedToItsJob ==
    /\ [](\A j \in JobIds :
            posts[j] >= 1 =>
                /\ payload[j].job_id = Job(j).id
                /\ payload[j].job_id = j
                /\ payload[j].created_at = Job(j).start_time
                /\ post_url[j] = Job(j).webhook_url)
    /\ [][\A j \in Created :
            /\ Identity(jobs_store'[j]) = Identity(jobs_store[j])
            /\ AttemptState(jobs_store'[j]) # AttemptState(jobs_store[j])
                  => (pc[j] = "inflight" /\ pc'[j] # "inflight")]_vars

C15_Witness ==
    \E j, k \in Created :
        /\ j # k
        /\ Job(j).webhook_url # Job(k).webhook_url
        /\ posts[j] = 3
        /\ Job(j).webhook_attempts = 3
        /\ pc[k] = "sleep"
        /\ Job(k).webhook_attempts = 0

\* C16: no job with a negative duration is ever in the job store, and no
\* monitor task exists for one.
C16_NegativeDurationRejected ==
    \A j \in JobIds :
        j \in Created => (Job(j).duration >= 0 /\ pc[j] # "idle")

\* the texts a client may put in the path: every uuid drawn, and one never drawn
PathTexts == JobIds \cup {"x"}

\* what a lookup has to answer for the text of a path
Expected(text) ==
    IF text \in Created
    THEN [kind |-> "job",
          id |-> text,
          created_at |-> Job(text).start_time,
          duration |-> Job(text).duration,
          status |-> get_status(text)]
    ELSE [kind |-> "not_found", id |-> text]

\* C17: at any time, whatever the state of its notification, the lookup of
\* main.py answers the id of a created job with that job's record and its
\* current derived status, and an id never created with not-found.
C17_LookupReturnsJob ==
    \A text \in PathTexts : main_get_status(text) = Expected(text)

\* C17, for the lookup of server.py: the same statement.
C17_ServerLookupReturnsJob ==
    \A text \in PathTexts : server_get_status(text) = Expected(text)

\* C18: a monitor whose first observation of its job is terminal (a job with
\* has_error, or one whose duration had already passed) records that status
\* as previous_status, keeps it from then on, and never calls the notifier
\* for the job.
C18_TerminalAtStartNeverNotified ==
    /\ [](\A j \in JobIds :
            previous_status[j] \in Terminal =>
                /\ calls[j] = 0
                /\ pc[j] = "sleep"
                /\ current_status[j] = previous_status[j])
    /\ [](\A j \in Created : Job(j).has_error => calls[j] = 0)
    /\ [][\A j \in JobIds :
            /\ (pc[j] = "start" /\ pc'[j] # "start" /\ get_status(j) \in Terminal)
                  => (previous_status'[j] = get_status(j) /\ calls'[j] = 0)
            /\ previous_status[j] \in Terminal
                  => (previous_status'[j] = previous_status[j] /\ calls'[j] = 0)]_vars

C18_Witness ==
    \E j, k \in Created :
        /\ ~Job(j).has_error /\ Job(j).duration = 0
        /\ previous_status[j] = COMPLETED
        /\ Job(k).has_error /\ Job(k).webhook_url # ""
        /\ previous_status[k] = ERROR
        /\ calls[j] = 0 /\ calls[k] = 0
        /\ now = Horizon
        /\ timer[j] = 0 /\ timer[k] = 0

\* C19: the payload of every request carries the terminal status the monitor
\* observed for the change, never "pending", with the event type of a status
\* update, and the payload built when the notifier started is the one every
\* later attempt of the call sends.
C19_PayloadCarriesObservedStatus ==
    /\ [](\A j \in JobIds :
            posts[j] >= 1 =>
                /\ payload[j].status = current_status[j]
                /\ payload[j].status \in Terminal
                /\ payload[j].status # PENDING
                /\ previous_status[j] = PENDING
                /\ payload[j].event_type = "translation.status_update")
    /\ [][\A j \in JobIds :
            posts[j] >= 1 => payload'[j] = payload[j]]_vars

C19_Witness ==
    \E j \in JobIds :
        /\ pc[j] = "inflight"
        /\ posts[j] = 3
        /\ payload[j].status = COMPLETED
        /\ previous_status[j] = PENDING

====
